---- MODULE Spec2Model ----
(***************************************************************************)
(* go-numbers: the /numbers handler of src/unnamed/part_000 (the           *)
(* context-based implementation): one fetchNumbers goroutine per url, an   *)
(* unbuffered channel, collectNumbers as the single receiver and one       *)
(* context with a 500 ms timeout shared by all of them.  The module also   *)
(* models the direct calls of collectNumbers made by TestCollectNumbers    *)
(* (src/numbers_test.go), which pre-fill a channel of capacity 10.         *)
(*                                                                         *)
(* Go's select is modelled as the runtime executes it.  A goroutine that   *)
(* evaluates a select takes, atomically, one of the cases that can         *)
(* proceed; if none can, it parks on all of its channels.  A send on the   *)
(* unbuffered channel can proceed only when the receiver is parked on it,  *)
(* a receive only when a sender is parked on it (or the buffer holds a     *)
(* value); closing ctx.Done() commits, atomically, every goroutine parked  *)
(* on it to its <-ctx.Done() case.                                         *)
(***************************************************************************)
EXTENDS Integers, Sequences, FiniteSets, TLC

\* ------------------------------------------------------------- bounds
MaxUrls == 2      \* urls of one request, and outcomes pre-filled by a test
MaxLen == 2       \* length of one source's sequence
MaxVal == 2       \* integers are drawn from 1..MaxVal
NumReqs == 2      \* requests served concurrently by one handler value
MaxReqUrls == 1   \* urls of each of the concurrent requests
MaxOldUrls == 11  \* urls of one request to the timer/done-channel handler

\* ------------------------------------------------------ program constants
StatusOK == 200
StatusNotFound == 404
StatusError == -1
TestChanCap == 10
OldChanCap == 10

VARIABLES
    mode,        \* "idle", "handler" (makeNumbersHandler's closure runs), "test" (collectNumbers called directly)
    urls,        \* q["u"]: the request's identifiers, duplicates allowed
    hpc,         \* the handler's position: "idle", "spawn", "collect", "done"
    nspawn,      \* how many `go fetchNumbers` statements have run
    pc,          \* per task: "none", "get", "select", "parked", "sent", "dropped"
    got,         \* per task: what g.get returned
    tresult,     \* per task: fetchNumbers' local `result`
    sendq,       \* tasks parked in their select, in the order they parked on c
    buf,         \* the values buffered in c (only the test's channel has a buffer)
    ctxKind,     \* "background" (never cancelled) or "timeout"
    ctxDone,     \* whether ctx.Done() is closed
    cpc,         \* collectNumbers: "idle", "loop", "parked", "returned"
    expected,    \* collectNumbers' `expected`
    result,      \* collectNumbers' `result` set
    out,         \* the slice collectNumbers returned
    body,        \* the response body written by the handler
    code,        \* the response status written by the handler
    received,    \* history: the outcomes collectNumbers received ("Got numbers" log lines)
    endedBy,     \* history: "none", "count", "cancel" ("Unhandled urls" logged or not)
    late,        \* history: the tasks still inside g.get when ctx was cancelled
    timely,      \* history: the tasks whose g.get returned before ctx was cancelled
    expected0,   \* history: the `expected` argument of the call
    inputs,      \* history: what the test put into the channel before the call
    reqDone,     \* whether r.Context(), the parent of ctx, is cancelled
    ctxErr,      \* ctx.Err(): "nil", "DeadlineExceeded" or "Canceled"
    calls,       \* history, per task: the urls it has called g.get with
    req,         \* concurrent requests: per request, the locals of its closure, its tasks and its collectNumbers call
    chanq,       \* concurrent requests: per channel, the tasks parked on a send to it
    getter,      \* a direct call of NumbersGetterHttp.get: its position, what the network did, what it returned
    old          \* the timer/done-channel handler of src/numbers.go: its locals and a count of its goroutines per position

mainVars == <<mode, urls, hpc, nspawn, pc, got, tresult, sendq, buf, ctxKind, ctxDone,
          cpc, expected, result, out, body, code, received, endedBy, late, timely,
          expected0, inputs, reqDone, ctxErr, calls>>

reqVars == <<req, chanq>>

vars == <<mainVars, reqVars, old, getter>>

\* ------------------------------------------------------------ values
Values == 1..MaxVal
Urls == {"u1", "u2"}

Range(s) == {s[k] : k \in 1..Len(s)}

SeqsUpTo(S, n) == UNION {[1..k -> S] : k \in 0..n}

\* A Go []int: nil, or a (possibly empty) array.
Nil == [nil |-> TRUE, elems |-> <<>>]
MkSlice(s) == [nil |-> FALSE, elems |-> s]
Slices == {Nil} \cup {MkSlice(s) : s \in SeqsUpTo(Values, MaxLen)}

\* The three shapes NumbersGetter.get returns; the sequence of a success is
\* nil when the source's document has no "numbers" array.
GetOutcomes ==
    {[numbers |-> n, status |-> StatusOK, err |-> FALSE] : n \in Slices}
    \cup {[numbers |-> Nil, status |-> StatusNotFound, err |-> FALSE],
          [numbers |-> Nil, status |-> StatusError, err |-> TRUE]}

NoOutcome == [numbers |-> Nil, status |-> 0, err |-> FALSE]

\* ------------------------------------------------ NumbersGetterHttp.get
\* What a source can send as a body, as far as json.Unmarshal into Numbers
\* tells bodies apart: not JSON at all, the JSON null, a top-level value of
\* another type, an object without "numbers", with "numbers": null, with a
\* "numbers" of the wrong type, with an array of integers, or with an array
\* whose last element is not an integer.  Other members are ignored.
BodyKinds ==
    {"garbage", "null", "toparray", "absent", "fieldnull", "string", "ints", "mixed"}

Bodies ==
    {[kind |-> k, elems |-> <<>>, extra |-> FALSE] : k \in BodyKinds \ {"ints", "mixed"}}
    \cup {[kind |-> k, elems |-> e, extra |-> x] :
            k \in {"ints", "mixed"}, e \in SeqsUpTo(Values, MaxLen), x \in BOOLEAN}

\* json.Unmarshal(body, &numbers): the error, and numbers.Numbers afterwards.
\* An element of the wrong type is reported after the whole array has been
\* decoded, the element itself left at its zero value.
Unmarshal(b) ==
    CASE b.kind \in {"garbage", "toparray", "string"} -> [err |-> TRUE, numbers |-> Nil]
      [] b.kind \in {"null", "absent", "fieldnull"} -> [err |-> FALSE, numbers |-> Nil]
      [] b.kind = "ints" -> [err |-> FALSE, numbers |-> MkSlice(b.elems)]
      [] b.kind = "mixed" -> [err |-> TRUE, numbers |-> MkSlice(Append(b.elems, 0))]

\* What the environment does to one call: whether http.NewRequest accepts the
\* url, what client.Do returns ("ok": a response; "failed", "cancelled": no
\* response and an error; "redirect": a response and an error), the status of
\* the response, whether its body can be read, and the body.
GetInputs ==
    [urlOk : BOOLEAN, transport : {"ok", "failed", "cancelled", "redirect"},
     status : {StatusOK, StatusNotFound}, readOk : BOOLEAN, body : Bodies]

\* `return nil, -1, err`.
GetError == [numbers |-> Nil, status |-> StatusError, err |-> TRUE]

\* Mutant: what was decoded before the error is returned with it.
DecodeFailedPartial(d) == [numbers |-> d.numbers, status |-> StatusError, err |-> TRUE]

\* The return after a failed json.Unmarshal.
DecodeFailed(d) == GetError

\* NumbersGetterHttp.get, as a function of what the environment did.
get(in) ==
    IF ~in.urlOk THEN GetError
    ELSE IF in.transport # "ok" THEN GetError
    ELSE IF in.status # StatusOK
         THEN [numbers |-> Nil, status |-> in.status, err |-> FALSE]
    ELSE IF ~in.readOk THEN GetError
    ELSE LET d == Unmarshal(in.body)
         IN  IF d.err THEN DecodeFailed(d)
             ELSE [numbers |-> d.numbers, status |-> in.status, err |-> FALSE]

\* No call of get in progress.
NoCall ==
    [pc |-> "idle", out |-> NoOutcome, closed |-> FALSE,
     in |-> [urlOk |-> TRUE, transport |-> "ok", status |-> StatusOK, readOk |-> TRUE,
             body |-> [kind |-> "null", elems |-> <<>>, extra |-> FALSE]]]

\* ------------------------------------------------------- pure functions
\* Mutant: the set is replaced by the last outcome instead of extended by it.
setAddReplace(set, value) == Range(value.elems)

setAdd(set, value) == set \cup Range(value.elems)

\* Mutant: the comparison of the sort inverted (a descending sort).
RECURSIVE InsertDesc(_, _)
InsertDesc(v, s) ==
    IF s = <<>> THEN <<v>>
    ELSE IF v >= Head(s) THEN <<v>> \o s
    ELSE <<Head(s)>> \o InsertDesc(v, Tail(s))

RECURSIVE Insert(_, _)
Insert(v, s) ==
    IF s = <<>> THEN <<v>>
    ELSE IF v <= Head(s) THEN <<v>> \o s
    ELSE <<Head(s)>> \o Insert(v, Tail(s))

\* Mutant: sort.Ints left out.
SortIntsNone(s) == s

RECURSIVE SortInts(_)
SortInts(s) == IF s = <<>> THEN <<>> ELSE Insert(Head(s), SortInts(Tail(s)))

\* The orders in which `range set` may visit the keys of the map.
MapOrders(set) == {o \in [1..Cardinality(set) -> set] : Range(o) = set}

\* Mutant: `result := []int{}` instead of `var result []int`.
setToArrayMake(order) == MkSlice(SortInts(order))

\* setToArray, with order = the keys as the range loop appended them:
\* `var result []int` stays nil when nothing is appended.
setToArray(order) == IF order = <<>> THEN Nil ELSE MkSlice(SortInts(order))

\* Mutant: the status test inverted (`status == http.StatusOK`).
FetchResultInverted(o) ==
    IF o.err THEN Nil
    ELSE IF o.status = StatusOK THEN Nil
    ELSE o.numbers

\* fetchNumbers' if/else-if/else over g.get's return values.
FetchResult(o) ==
    IF o.err THEN Nil
    ELSE IF o.status # StatusOK THEN Nil
    ELSE o.numbers

\* json.Marshal(Numbers{Numbers: numbers}): a nil slice encodes as null.
Marshal(numbers) ==
    IF numbers.nil THEN [kind |-> "null", items |-> <<>>]
    ELSE [kind |-> "array", items |-> numbers.elems]

NoBody == [kind |-> "none", items |-> <<>>]

\* Mutant: `for expected >= 0`.
LoopCondGe(e) == e >= 0

\* `for expected > 0`
LoopCond(e) == e > 0

\* Mutant: the decrement skipped.
RecvExpectedKeep(e, numbers) == e

\* Mutant: the decrement made only for an outcome that carries numbers.
RecvExpectedIfAny(e, numbers) == IF numbers.elems = <<>> THEN e ELSE e - 1

\* `expected -= 1`, whatever the received numbers are
RecvExpected(e, numbers) == e - 1

\* Mutant: the <-ctx.Done() case does not reset `expected`.
DoneExpectedKeep(e) == e

\* `expected = 0` in the <-ctx.Done() case
DoneExpected(e) == 0

\* Mutant: one url too few is announced to collectNumbers.
ExpectedArgLess(u) == Len(u) - 1

\* The `expected` argument of the handler's call: len(urls).
ExpectedArg(u) == Len(u)

\* Mutant: a failed g.get is tried again.
AfterGetRetry(o) == IF o.err \/ o.status # StatusOK THEN "get" ELSE "select"

\* Where fetchNumbers goes when g.get has returned o: always on to its select
\* (g.get is called once, whatever it returned).
AfterGet(o) == "select"

Tasks == 1..Len(urls)

\* ------------------------------------------------ concurrent requests
Reqs == 1..NumReqs

\* A request that has not arrived yet.
NoReq ==
    [urls |-> <<>>, hpc |-> "idle", nspawn |-> 0, pc |-> <<>>, tresult |-> <<>>,
     ctxDone |-> FALSE, cpc |-> "idle", expected |-> 0, result |-> {}, out |-> Nil,
     body |-> NoBody, received |-> <<>>]

\* Mutant: one channel made outside the closure, shared by every request.
ChanOfShared(r) == 1

\* The channel request r's closure sends to and receives from: `c := make(chan
\* []int)` runs inside the closure, once per request.
ChanOf(r) == r

\* ------------------------------------------- timer/done-channel handler
\* Before the request: no goroutine, empty channel.  run, chk, snd, blk, fin
\* count the fetch goroutines inside g.get, before the select on done, between
\* the select's default case and `c <- result`, blocked in that send, finished;
\* early is a history count of the goroutines whose g.get returned before
\* collectNumbers stopped receiving.
NoOld ==
    [n |-> 0, hpc |-> "idle", spawned |-> 0, run |-> 0, chk |-> 0, snd |-> 0,
     blk |-> 0, fin |-> 0, chanLen |-> 0, cpc |-> "idle", expected |-> 0,
     timerFired |-> FALSE, doneClosed |-> FALSE, early |-> 0]

\* ------------------------------------------------------------ Init
Init ==
    /\ mode = "idle"
    /\ urls = <<>>
    /\ hpc = "idle"
    /\ nspawn = 0
    /\ pc = <<>>
    /\ got = <<>>
    /\ tresult = <<>>
    /\ sendq = <<>>
    /\ buf = <<>>
    /\ ctxKind = "background"
    /\ ctxDone = FALSE
    /\ cpc = "idle"
    /\ expected = 0
    /\ result = {}
    /\ out = Nil
    /\ body = NoBody
    /\ code = 0
    /\ received = <<>>
    /\ endedBy = "none"
    /\ late = {}
    /\ timely = {}
    /\ expected0 = 0
    /\ inputs = <<>>
    /\ reqDone = FALSE
    /\ ctxErr = "nil"
    /\ calls = <<>>
    /\ req = [r \in Reqs |-> NoReq]
    /\ chanq = [ch \in Reqs |-> <<>>]
    /\ old = NoOld
    /\ getter = NoCall

\* ----------------------------------------------------------- handler
\* The handler's closure up to context.WithTimeout: urls come from the query.
ServeHTTP(u) ==
    /\ mode = "idle"
    /\ mode' = "handler"
    /\ urls' = u
    /\ hpc' = "spawn"
    /\ pc' = [i \in 1..Len(u) |-> "none"]
    /\ got' = [i \in 1..Len(u) |-> NoOutcome]
    /\ tresult' = [i \in 1..Len(u) |-> Nil]
    /\ calls' = [i \in 1..Len(u) |-> <<>>]
    /\ ctxKind' = "timeout"
    /\ UNCHANGED <<nspawn, sendq, buf, ctxDone, cpc, expected, result, out, body, code,
                   received, endedBy, late, expected0, inputs,
                   timely, reqDone, ctxErr, reqVars, old, getter>>

\* One iteration of `for _, url := range urls { go fetchNumbers(...) }`.
Spawn ==
    /\ hpc = "spawn"
    /\ nspawn < Len(urls)
    /\ nspawn' = nspawn + 1
    /\ pc' = [pc EXCEPT ![nspawn + 1] = "get"]
    /\ calls' = [calls EXCEPT ![nspawn + 1] = Append(@, urls[nspawn + 1])]
    /\ UNCHANGED <<mode, urls, hpc, got, tresult, sendq, buf, ctxKind, ctxDone, cpc,
                   expected, result, out, body, code, received, endedBy, late,
                   expected0, inputs,
                   timely, reqDone, ctxErr, reqVars, old, getter>>

\* `numbers := collectNumbers(ctx, len(urls), c)`: the call and `result := make(...)`.
CallCollect ==
    /\ hpc = "spawn"
    /\ nspawn = Len(urls)
    /\ hpc' = "collect"
    /\ cpc' = "loop"
    /\ expected' = ExpectedArg(urls)
    /\ expected0' = ExpectedArg(urls)
    /\ result' = {}
    /\ UNCHANGED <<mode, urls, nspawn, pc, got, tresult, sendq, buf, ctxKind, ctxDone,
                   out, body, code, received, endedBy, late, inputs,
                   timely, reqDone, calls, ctxErr, reqVars, old, getter>>

\* Mutant: a collection ended by cancellation is answered with an error status.
ResponseStatusOnTimeout(e) == IF e = "cancel" THEN StatusError ELSE StatusOK

\* The status the handler writes, whichever way collection ended.
ResponseStatus(e) == StatusOK

\* json.Marshal, WriteHeader(http.StatusOK), Write.
Respond ==
    /\ hpc = "collect"
    /\ cpc = "returned"
    /\ hpc' = "done"
    /\ body' = Marshal(out)
    /\ code' = ResponseStatus(endedBy)
    /\ UNCHANGED <<mode, urls, nspawn, pc, got, tresult, sendq, buf, ctxKind, ctxDone,
                   cpc, expected, result, out, received, endedBy, late,
                   expected0, inputs,
                   timely, reqDone, calls, ctxErr, reqVars, old, getter>>

\* ------------------------------------------------- TestCollectNumbers
\* `channel <- i` for every input, then collectNumbers(ctx, n, channel), with
\* context.Background() or a context with a timeout.
TestCollect(ins, n, kind) ==
    /\ mode = "idle"
    /\ Len(ins) <= TestChanCap
    /\ mode' = "test"
    /\ buf' = ins
    /\ inputs' = ins
    /\ ctxKind' = kind
    /\ cpc' = "loop"
    /\ expected' = n
    /\ expected0' = n
    /\ result' = {}
    /\ UNCHANGED <<urls, hpc, nspawn, pc, got, tresult, sendq, ctxDone, out, body, code,
                   received, endedBy, late,
                   timely, reqDone, calls, ctxErr, reqVars, old, getter>>

\* ------------------------------------------------------- fetchNumbers
\* g.get returns; the if/else-if/else sets `result`.
GetReturn(i, o) ==
    /\ pc[i] = "get"
    /\ got' = [got EXCEPT ![i] = o]
    /\ tresult' = [tresult EXCEPT ![i] = FetchResult(o)]
    /\ pc' = [pc EXCEPT ![i] = AfterGet(o)]
    /\ calls' = IF AfterGet(o) = "get" THEN [calls EXCEPT ![i] = Append(@, urls[i])] ELSE calls
    /\ timely' = IF ctxDone THEN timely ELSE timely \cup {i}
    /\ UNCHANGED <<mode, urls, hpc, nspawn, sendq, buf, ctxKind, ctxDone, cpc, expected,
                   result, out, body, code, received, endedBy, late, expected0,
                   inputs, reqDone, ctxErr, reqVars, old, getter>>

\* What the collector does with a received value: the `numbers := <-c` case.
Received(src, numbers) ==
    /\ expected' = RecvExpected(expected, numbers)
    /\ result' = setAdd(result, numbers)
    /\ received' = Append(received, [src |-> src, numbers |-> numbers])
    /\ cpc' = "loop"

\* Mutant: a plain `c <- result` instead of the select with <-ctx.Done().
TaskSelectNoCtx(i) ==
    /\ pc[i] = "select"
    /\ \/ /\ cpc = "parked"
          /\ pc' = [pc EXCEPT ![i] = "sent"]
          /\ Received(i, tresult[i])
          /\ UNCHANGED sendq
       \/ /\ cpc # "parked"
          /\ pc' = [pc EXCEPT ![i] = "parked"]
          /\ sendq' = Append(sendq, i)
          /\ UNCHANGED <<cpc, expected, result, received>>
    /\ UNCHANGED <<mode, urls, hpc, nspawn, got, tresult, buf, ctxKind, ctxDone, out,
                   body, code, endedBy, late, expected0, inputs, timely, reqDone, calls, ctxErr, reqVars, old, getter>>

\* Mutant: a non-blocking send, `select { case c <- result: default: }`.
TaskSelectDefault(i) ==
    /\ pc[i] = "select"
    /\ \/ /\ cpc = "parked"
          /\ pc' = [pc EXCEPT ![i] = "sent"]
          /\ Received(i, tresult[i])
       \/ /\ cpc # "parked"
          /\ pc' = [pc EXCEPT ![i] = "dropped"]
          /\ UNCHANGED <<cpc, expected, result, received>>
    /\ UNCHANGED <<mode, urls, hpc, nspawn, got, tresult, sendq, buf, ctxKind, ctxDone,
                   out, body, code, endedBy, late, expected0, inputs, timely, reqDone,
                   calls, ctxErr, reqVars, old, getter>>

\* The select of fetchNumbers.
TaskSelect(i) ==
    /\ pc[i] = "select"
    /\ \/ /\ ctxDone                      \* case <-ctx.Done()
          /\ pc' = [pc EXCEPT ![i] = "dropped"]
          /\ UNCHANGED <<sendq, cpc, expected, result, received>>
       \/ /\ cpc = "parked"               \* case c <- result: the receiver waits
          /\ pc' = [pc EXCEPT ![i] = "sent"]
          /\ Received(i, tresult[i])
          /\ UNCHANGED sendq
       \/ /\ ~ctxDone                     \* neither can proceed: park on both
          /\ cpc # "parked"
          /\ pc' = [pc EXCEPT ![i] = "parked"]
          /\ sendq' = Append(sendq, i)
          /\ UNCHANGED <<cpc, expected, result, received>>
    /\ UNCHANGED <<mode, urls, hpc, nspawn, got, tresult, buf, ctxKind, ctxDone, out,
                   body, code, endedBy, late, expected0, inputs,
                   timely, reqDone, calls, ctxErr, reqVars, old, getter>>

\* ----------------------------------------------------- collectNumbers
\* The select of collectNumbers takes `numbers := <-c`.
CollectRecv ==
    /\ cpc = "loop"
    /\ LoopCond(expected)
    /\ \/ /\ buf # <<>>                   \* a buffered value
          /\ Received(0, Head(buf))
          /\ buf' = Tail(buf)
          /\ UNCHANGED <<pc, sendq>>
       \/ /\ buf = <<>>                   \* a parked sender
          /\ sendq # <<>>
          /\ Received(Head(sendq), tresult[Head(sendq)])
          /\ pc' = [pc EXCEPT ![Head(sendq)] = "sent"]
          /\ sendq' = Tail(sendq)
          /\ UNCHANGED buf
    /\ UNCHANGED <<mode, urls, hpc, nspawn, got, tresult, ctxKind, ctxDone, out, body,
                   code, endedBy, late, expected0, inputs,
                   timely, reqDone, calls, ctxErr, reqVars, old, getter>>

\* The select of collectNumbers takes `<-ctx.Done()`.
CollectDone ==
    /\ cpc = "loop"
    /\ LoopCond(expected)
    /\ ctxDone
    /\ expected' = DoneExpected(expected)
    /\ endedBy' = "cancel"
    /\ UNCHANGED <<mode, urls, hpc, nspawn, pc, got, tresult, sendq, buf, ctxKind,
                   ctxDone, cpc, result, out, body, code, received, late,
                   expected0, inputs,
                   timely, reqDone, calls, ctxErr, reqVars, old, getter>>

\* Neither case of the select can proceed: the collector parks on c and ctx.Done().
CollectPark ==
    /\ cpc = "loop"
    /\ LoopCond(expected)
    /\ ~ctxDone
    /\ buf = <<>>
    /\ sendq = <<>>
    /\ cpc' = "parked"
    /\ UNCHANGED <<mode, urls, hpc, nspawn, pc, got, tresult, sendq, buf, ctxKind,
                   ctxDone, expected, result, out, body, code, received, endedBy,
                   late, expected0, inputs,
                   timely, reqDone, calls, ctxErr, reqVars, old, getter>>

\* The loop condition fails: `return setToArray(result)`.
CollectReturn ==
    /\ cpc = "loop"
    /\ ~LoopCond(expected)
    /\ \E o \in MapOrders(result) : out' = setToArray(o)
    /\ cpc' = "returned"
    /\ endedBy' = IF endedBy = "none" THEN "count" ELSE endedBy
    /\ UNCHANGED <<mode, urls, hpc, nspawn, pc, got, tresult, sendq, buf, ctxKind,
                   ctxDone, expected, result, body, code, received, late,
                   expected0, inputs,
                   timely, reqDone, calls, ctxErr, reqVars, old, getter>>

\* ------------------------------------------------------- cancellation
\* ctx.Done() is closed: every goroutine parked in a select is committed to its
\* <-ctx.Done() case (a parked task drops its result, the parked collector
\* runs `expected = 0`).
Cancel ==
    /\ ~ctxDone
    /\ ctxDone' = TRUE
    /\ late' = {i \in DOMAIN pc : pc[i] = "get"}
    /\ pc' = [i \in DOMAIN pc |-> IF pc[i] = "parked" THEN "dropped" ELSE pc[i]]
    /\ sendq' = <<>>
    /\ IF cpc = "parked"
       THEN /\ cpc' = "loop"
            /\ expected' = DoneExpected(expected)
            /\ endedBy' = "cancel"
       ELSE UNCHANGED <<cpc, expected, endedBy>>
    /\ UNCHANGED <<mode, urls, hpc, nspawn, got, tresult, buf, ctxKind, result, out,
                   body, code, received, expected0, inputs,
                   timely, calls, reqVars, old, getter>>

\* The timer of context.WithTimeout fires.
DeadlineFires ==
    /\ mode # "idle"
    /\ ctxKind = "timeout"
    /\ Cancel
    /\ ctxErr' = "DeadlineExceeded"
    /\ UNCHANGED reqDone

\* Mutant: ctx derived from context.Background() instead of r.Context().
ClientDisconnectDetached ==
    /\ mode = "handler"
    /\ ~reqDone
    /\ reqDone' = TRUE
    /\ UNCHANGED <<mode, urls, hpc, nspawn, pc, got, tresult, sendq, buf, ctxKind,
                   ctxDone, cpc, expected, result, out, body, code, received, endedBy,
                   late, timely, expected0, inputs, calls, ctxErr, reqVars, old, getter>>

\* r.Context() is cancelled: the client went away (or the server ended the
\* request).  ctx is its child, so it is cancelled in the same call unless its
\* timer has already fired.
ClientDisconnect ==
    /\ mode = "handler"
    /\ ~reqDone
    /\ reqDone' = TRUE
    /\ IF ctxDone
       THEN UNCHANGED <<mode, urls, hpc, nspawn, pc, got, tresult, sendq, buf, ctxKind,
                        ctxDone, cpc, expected, result, out, body, code, received,
                        endedBy, late, timely, expected0, inputs, calls, ctxErr,
                        reqVars, old, getter>>
       ELSE Cancel /\ ctxErr' = "Canceled"

\* ------------------------------------------------------------- Next
Next ==
    \/ /\ mode = "idle"
       /\ \E u \in SeqsUpTo(Urls, MaxUrls) : ServeHTTP(u)
    \/ Spawn
    \/ CallCollect
    \/ Respond
    \/ /\ mode = "idle"
       /\ \E ins \in SeqsUpTo(Slices, MaxUrls), n \in 0..(MaxUrls + 1),
             kind \in {"background", "timeout"} : TestCollect(ins, n, kind)
    \/ \E i \in Tasks, o \in GetOutcomes : GetReturn(i, o)
    \/ \E i \in Tasks : TaskSelect(i)
    \/ CollectRecv
    \/ CollectDone
    \/ CollectPark
    \/ CollectReturn
    \/ DeadlineFires
    \/ ClientDisconnect

Spec == Init /\ [][Next]_vars

\* ------------------------------------------------------ fair specifications
CollectorStep == CollectRecv \/ CollectDone \/ CollectPark \/ CollectReturn

\* The scheduler runs the collector's goroutine; nothing is assumed of the
\* sources (g.get may never return) or of the handler.
FairCollector == Spec /\ WF_vars(CollectorStep)

\* Every g.get returns, the scheduler runs every task, and the timer of the
\* context fires; nothing is assumed of the collector.
FairTasks ==
    /\ Spec
    /\ WF_vars(DeadlineFires)
    /\ \A i \in 1..MaxUrls :
          /\ WF_vars(\E o \in GetOutcomes : i \in Tasks /\ GetReturn(i, o))
          /\ WF_vars(i \in Tasks /\ TaskSelect(i))

\* The scheduler runs the handler's goroutine and the collector it calls, and
\* the timer of the context fires; nothing is assumed of the sources or of the
\* tasks (g.get may fail, stall or never return).
FairHandler ==
    /\ Spec
    /\ WF_vars(Spawn)
    /\ WF_vars(CallCollect)
    /\ WF_vars(Respond)
    /\ WF_vars(CollectorStep)
    /\ WF_vars(DeadlineFires)

\* ------------------------------------- concurrent requests: the actions
\* The same steps as above, for each of the requests that one handler value
\* serves at the same time.  Each has its own ctx and its own collectNumbers
\* call; its tasks send to, and its collector receives from, channel ChanOf(r).
ReqTasks(r) == 1..Len(req[r].urls)

ReqServeHTTP(r, u) ==
    /\ req[r].hpc = "idle"
    /\ req' = [req EXCEPT ![r].urls = u,
                          ![r].hpc = "spawn",
                          ![r].pc = [i \in 1..Len(u) |-> "none"],
                          ![r].tresult = [i \in 1..Len(u) |-> Nil]]
    /\ UNCHANGED <<mainVars, chanq, old, getter>>

ReqSpawn(r) ==
    /\ req[r].hpc = "spawn"
    /\ req[r].nspawn < Len(req[r].urls)
    /\ req' = [req EXCEPT ![r].nspawn = @ + 1,
                          ![r].pc[req[r].nspawn + 1] = "get"]
    /\ UNCHANGED <<mainVars, chanq, old, getter>>

ReqCallCollect(r) ==
    /\ req[r].hpc = "spawn"
    /\ req[r].nspawn = Len(req[r].urls)
    /\ req' = [req EXCEPT ![r].hpc = "collect",
                          ![r].cpc = "loop",
                          ![r].expected = ExpectedArg(req[r].urls),
                          ![r].result = {}]
    /\ UNCHANGED <<mainVars, chanq, old, getter>>

ReqGetReturn(r, i, o) ==
    /\ req[r].pc[i] = "get"
    /\ req' = [req EXCEPT ![r].pc[i] = AfterGet(o),
                          ![r].tresult[i] = FetchResult(o)]
    /\ UNCHANGED <<mainVars, chanq, old, getter>>

\* rq after the collector of request q has received `numbers` from task src.
ReqReceived(rq, q, src, numbers) ==
    [rq EXCEPT ![q].expected = RecvExpected(@, numbers),
               ![q].result = setAdd(@, numbers),
               ![q].received = Append(@, [src |-> src, numbers |-> numbers]),
               ![q].cpc = "loop"]

ReqTaskSelect(r, i) ==
    /\ req[r].pc[i] = "select"
    /\ \/ /\ req[r].ctxDone
          /\ req' = [req EXCEPT ![r].pc[i] = "dropped"]
          /\ UNCHANGED chanq
       \/ \E q \in Reqs :                 \* a receiver waits on the task's channel
             /\ req[q].cpc = "parked"
             /\ ChanOf(q) = ChanOf(r)
             /\ req' = ReqReceived([req EXCEPT ![r].pc[i] = "sent"], q, <<r, i>>,
                                   req[r].tresult[i])
             /\ UNCHANGED chanq
       \/ /\ ~req[r].ctxDone
          /\ \A q \in Reqs : ~(req[q].cpc = "parked" /\ ChanOf(q) = ChanOf(r))
          /\ req' = [req EXCEPT ![r].pc[i] = "parked"]
          /\ chanq' = [chanq EXCEPT ![ChanOf(r)] = Append(@, <<r, i>>)]
    /\ UNCHANGED <<mainVars, old, getter>>

ReqCollectRecv(q) ==
    /\ req[q].cpc = "loop"
    /\ LoopCond(req[q].expected)
    /\ chanq[ChanOf(q)] # <<>>
    /\ LET s == Head(chanq[ChanOf(q)])
       IN  req' = ReqReceived([req EXCEPT ![s[1]].pc[s[2]] = "sent"], q, s,
                              req[s[1]].tresult[s[2]])
    /\ chanq' = [chanq EXCEPT ![ChanOf(q)] = Tail(@)]
    /\ UNCHANGED <<mainVars, old, getter>>

ReqCollectDone(q) ==
    /\ req[q].cpc = "loop"
    /\ LoopCond(req[q].expected)
    /\ req[q].ctxDone
    /\ req' = [req EXCEPT ![q].expected = DoneExpected(@)]
    /\ UNCHANGED <<mainVars, chanq, old, getter>>

ReqCollectPark(q) ==
    /\ req[q].cpc = "loop"
    /\ LoopCond(req[q].expected)
    /\ ~req[q].ctxDone
    /\ chanq[ChanOf(q)] = <<>>
    /\ req' = [req EXCEPT ![q].cpc = "parked"]
    /\ UNCHANGED <<mainVars, chanq, old, getter>>

ReqCollectReturn(q) ==
    /\ req[q].cpc = "loop"
    /\ ~LoopCond(req[q].expected)
    /\ \E o \in MapOrders(req[q].result) :
          req' = [req EXCEPT ![q].out = setToArray(o), ![q].cpc = "returned"]
    /\ UNCHANGED <<mainVars, chanq, old, getter>>

ReqRespond(q) ==
    /\ req[q].hpc = "collect"
    /\ req[q].cpc = "returned"
    /\ req' = [req EXCEPT ![q].hpc = "done", ![q].body = Marshal(req[q].out)]
    /\ UNCHANGED <<mainVars, chanq, old, getter>>

\* The ctx of request r is cancelled, by its timer or by its client.
ReqCancel(r) ==
    /\ req[r].hpc # "idle"
    /\ ~req[r].ctxDone
    /\ LET NotOfR(e) == e[1] # r
       IN  chanq' = [chanq EXCEPT ![ChanOf(r)] = SelectSeq(@, NotOfR)]
    /\ req' = [req EXCEPT
                 ![r].ctxDone = TRUE,
                 ![r].pc = [i \in DOMAIN @ |-> IF @[i] = "parked" THEN "dropped" ELSE @[i]],
                 ![r].cpc = IF @ = "parked" THEN "loop" ELSE @,
                 ![r].expected = IF req[r].cpc = "parked" THEN DoneExpected(@) ELSE @]
    /\ UNCHANGED <<mainVars, old, getter>>

NextReq ==
    \/ \E r \in Reqs, u \in SeqsUpTo(Urls, MaxReqUrls) : ReqServeHTTP(r, u)
    \/ \E r \in Reqs : ReqSpawn(r)
    \/ \E r \in Reqs : ReqCallCollect(r)
    \/ \E r \in Reqs, i \in 1..MaxReqUrls, o \in GetOutcomes :
          i \in ReqTasks(r) /\ ReqGetReturn(r, i, o)
    \/ \E r \in Reqs, i \in 1..MaxReqUrls : i \in ReqTasks(r) /\ ReqTaskSelect(r, i)
    \/ \E r \in Reqs : ReqCollectRecv(r)
    \/ \E r \in Reqs : ReqCollectDone(r)
    \/ \E r \in Reqs : ReqCollectPark(r)
    \/ \E r \in Reqs : ReqCollectReturn(r)
    \/ \E r \in Reqs : ReqRespond(r)
    \/ \E r \in Reqs : ReqCancel(r)

SpecReq == Init /\ [][NextReq]_vars

\* ------------------------------ timer/done-channel handler: the actions
\* src/numbers.go: a timer instead of a context, a channel of capacity
\* OldChanCap, and fetch goroutines that check `done` without blocking and
\* then send.  The goroutines are alike and the values they send do not
\* matter to who blocks, so they are counted per position.
OldServeHTTP(n) ==
    /\ old.hpc = "idle"
    /\ old' = [old EXCEPT !.hpc = "spawn", !.n = n]
    /\ UNCHANGED <<mainVars, reqVars, getter>>

OldSpawn ==
    /\ old.hpc = "spawn"
    /\ old.spawned < old.n
    /\ old' = [old EXCEPT !.spawned = @ + 1, !.run = @ + 1]
    /\ UNCHANGED <<mainVars, reqVars, getter>>

OldCallCollect ==
    /\ old.hpc = "spawn"
    /\ old.spawned = old.n
    /\ old' = [old EXCEPT !.hpc = "collect", !.cpc = "loop", !.expected = old.n]
    /\ UNCHANGED <<mainVars, reqVars, getter>>

\* collectNumbers has left its loop for good: nothing receives from c again.
OldStopped ==
    \/ old.cpc = "returned"
    \/ old.cpc = "loop" /\ ~LoopCond(old.expected)

\* g.get returns (it has its own timeout) and `result` is set.
OldGetReturn ==
    /\ old.run > 0
    /\ old' = [old EXCEPT !.run = @ - 1, !.chk = @ + 1,
                          !.early = IF OldStopped THEN @ ELSE @ + 1]
    /\ UNCHANGED <<mainVars, reqVars, getter>>

\* `select { case <-done: return`.
OldSelectDone ==
    /\ old.chk > 0
    /\ old.doneClosed
    /\ old' = [old EXCEPT !.chk = @ - 1, !.fin = @ + 1]
    /\ UNCHANGED <<mainVars, reqVars, getter>>

\* `default:` is taken, the send itself is the next step.
OldSelectDefault ==
    /\ old.chk > 0
    /\ ~old.doneClosed
    /\ old' = [old EXCEPT !.chk = @ - 1, !.snd = @ + 1]
    /\ UNCHANGED <<mainVars, reqVars, getter>>

\* `c <- result`: handed to the waiting collector, buffered, or blocked.
OldSend ==
    /\ old.snd > 0
    /\ \/ /\ old.cpc = "parked"
          /\ old' = [old EXCEPT !.snd = @ - 1, !.fin = @ + 1, !.cpc = "loop",
                                !.expected = RecvExpected(@, Nil)]
       \/ /\ old.cpc # "parked"
          /\ old.chanLen < OldChanCap
          /\ old' = [old EXCEPT !.snd = @ - 1, !.fin = @ + 1, !.chanLen = @ + 1]
       \/ /\ old.cpc # "parked"
          /\ old.chanLen = OldChanCap
          /\ old' = [old EXCEPT !.snd = @ - 1, !.blk = @ + 1]
    /\ UNCHANGED <<mainVars, reqVars, getter>>

\* `case numbers := <-c`: a blocked sender, if any, moves its value into the
\* slot that was freed and finishes.
OldCollectRecv ==
    /\ old.cpc = "loop"
    /\ LoopCond(old.expected)
    /\ old.chanLen > 0
    /\ old' = IF old.blk > 0
              THEN [old EXCEPT !.expected = RecvExpected(@, Nil),
                               !.blk = @ - 1, !.fin = @ + 1]
              ELSE [old EXCEPT !.expected = RecvExpected(@, Nil),
                               !.chanLen = @ - 1]
    /\ UNCHANGED <<mainVars, reqVars, getter>>

\* `case <-c_timeout`.
OldCollectTimeout ==
    /\ old.cpc = "loop"
    /\ LoopCond(old.expected)
    /\ old.timerFired
    /\ old' = [old EXCEPT !.expected = DoneExpected(@)]
    /\ UNCHANGED <<mainVars, reqVars, getter>>

OldCollectPark ==
    /\ old.cpc = "loop"
    /\ LoopCond(old.expected)
    /\ old.chanLen = 0
    /\ ~old.timerFired
    /\ old' = [old EXCEPT !.cpc = "parked"]
    /\ UNCHANGED <<mainVars, reqVars, getter>>

\* The loop is left: json.Marshal and w.Write, collectNumbers returns.
OldCollectReturn ==
    /\ old.cpc = "loop"
    /\ ~LoopCond(old.expected)
    /\ old' = [old EXCEPT !.cpc = "returned"]
    /\ UNCHANGED <<mainVars, reqVars, getter>>

\* timer.C gets its value; a collector parked on it takes the timeout case.
OldTimerFires ==
    /\ old.hpc \in {"spawn", "collect"}
    /\ ~old.timerFired
    /\ old' = [old EXCEPT !.timerFired = TRUE,
                          !.cpc = IF @ = "parked" THEN "loop" ELSE @,
                          !.expected = IF old.cpc = "parked" THEN DoneExpected(@) ELSE @]
    /\ UNCHANGED <<mainVars, reqVars, getter>>

\* `close(done)` and timer.Stop(): the handler returns.
OldCloseDone ==
    /\ old.hpc = "collect"
    /\ old.cpc = "returned"
    /\ old' = [old EXCEPT !.hpc = "done", !.doneClosed = TRUE]
    /\ UNCHANGED <<mainVars, reqVars, getter>>

\* ----------------------------------- NumbersGetterHttp.get: the actions
\* g.get(ctx, url) is called, as numbers_get does it; the environment's part
\* is fixed by `in`.
HttpGetCall(in) ==
    /\ getter.pc = "idle"
    /\ getter' = [getter EXCEPT !.pc = "called", !.in = in]
    /\ UNCHANGED <<mainVars, reqVars, old>>

\* get returns; the deferred res.Body.Close() runs if client.Do gave a response.
HttpGetReturn ==
    /\ getter.pc = "called"
    /\ getter' = [getter EXCEPT
                    !.pc = "returned",
                    !.out = get(getter.in),
                    !.closed = getter.in.urlOk /\ getter.in.transport \in {"ok", "redirect"}]
    /\ UNCHANGED <<mainVars, reqVars, old>>

NextGet ==
    \/ /\ getter.pc = "idle"
       /\ \E in \in GetInputs : HttpGetCall(in)
    \/ HttpGetReturn

SpecGet == Init /\ [][NextGet]_vars

NextOld ==
    \/ \E n \in 0..MaxOldUrls : OldServeHTTP(n)
    \/ OldSpawn
    \/ OldCallCollect
    \/ OldGetReturn
    \/ OldSelectDone
    \/ OldSelectDefault
    \/ OldSend
    \/ OldCollectRecv
    \/ OldCollectTimeout
    \/ OldCollectPark
    \/ OldCollectReturn
    \/ OldTimerFires
    \/ OldCloseDone

SpecOld == Init /\ [][NextOld]_vars

\* ------------------------------------------------------------ properties
\* The state of the request's state machine, read off the handler's position
\* and the way collectNumbers left its loop.
Phase ==
    CASE hpc = "idle" -> "Idle"
      [] hpc = "spawn" -> "Dispatched"
      [] hpc = "collect" /\ endedBy = "none" -> "Collecting"
      [] hpc = "collect" /\ endedBy = "count" -> "Completed"
      [] hpc = "collect" /\ endedBy = "cancel" -> "DeadlineExceeded"
      [] hpc = "done" -> "Finalized"

PhaseEdges ==
    {<<"Idle", "Dispatched">>, <<"Dispatched", "Collecting">>,
     <<"Collecting", "Completed">>, <<"Collecting", "DeadlineExceeded">>,
     <<"Completed", "Finalized">>, <<"DeadlineExceeded", "Finalized">>}

IsAscending(s) == \A i, j \in 1..Len(s) : i < j => s[i] < s[j]

Ints(slices) == UNION {Range(slices[k].elems) : k \in 1..Len(slices)}

ReceivedNumbers == [k \in 1..Len(received) |-> received[k].numbers]

Returned(i) == pc[i] \in {"select", "parked", "sent", "dropped"}

Failed(i) == got[i].err \/ got[i].status # StatusOK

Succeeded(i) == ~got[i].err /\ got[i].status = StatusOK

ArrivalOrders(n) == {f \in [1..n -> 1..n] : Range(f) = 1..n}

\* The set collectNumbers builds when the outcomes arrive in the order of s.
RECURSIVE CollectSet(_)
CollectSet(s) ==
    IF s = <<>> THEN {}
    ELSE setAdd(CollectSet(SubSeq(s, 1, Len(s) - 1)), s[Len(s)])

\* C1: with a scope that is never cancelled and at least n outcomes available,
\* collectNumbers(ctx, n, c) never waits and never takes the cancellation case,
\* returns after receiving exactly the first n outcomes, leaves the others in
\* the channel, and returns the ascending duplicate-free union of those n.
C1_ExactlyN ==
    /\ (mode = "test" /\ ctxKind = "background" /\ expected0 <= Len(inputs)) =>
          /\ cpc # "parked"
          /\ endedBy # "cancel"
          /\ Len(received) <= expected0
          /\ cpc = "returned" =>
                /\ Len(received) = expected0
                /\ ReceivedNumbers = SubSeq(inputs, 1, expected0)
                /\ buf = SubSeq(inputs, expected0 + 1, Len(inputs))
                /\ IsAscending(out.elems)
                /\ Range(out.elems) = Ints(SubSeq(inputs, 1, expected0))
    /\ (mode = "handler" /\ cpc = "returned" /\ ~ctxDone) =>
          /\ endedBy = "count"
          /\ Len(received) = Len(urls)
          /\ IsAscending(out.elems)
          /\ Range(out.elems) = Ints(ReceivedNumbers)

C1_Witness ==
    /\ mode = "test"
    /\ ctxKind = "background"
    /\ cpc = "returned"
    /\ expected0 >= 1
    /\ Len(buf) >= 1
    /\ Len(out.elems) >= 2

\* C2 as stated: when some sources fail or are late, the response is the
\* ascending union of exactly the sources whose retrieval succeeded before the
\* scope was cancelled.
C2_Original ==
    (hpc = "done" /\ \E i \in Tasks : i \notin timely \/ Failed(i)) =>
        /\ code = StatusOK
        /\ IsAscending(body.items)
        /\ Range(body.items) =
              UNION {Range(got[i].numbers.elems) : i \in {j \in timely : Succeeded(j)}}

\* C2 amended: the response is the ascending union of exactly the sources whose
\* retrieval succeeded before the scope was cancelled and whose outcome the
\* collector received; failed and late sources contribute nothing, and the
\* status is 200.
C2_Amended ==
    hpc = "done" =>
        /\ code = StatusOK
        /\ IsAscending(body.items)
        /\ Range(body.items) =
              UNION {Range(got[i].numbers.elems) :
                        i \in {j \in timely : Succeeded(j) /\ pc[j] = "sent"}}
        /\ \A i \in Tasks : pc[i] = "sent" => i \in timely

C2_Witness ==
    /\ hpc = "done"
    /\ \E i, j \in Tasks :
          /\ Returned(i) /\ Failed(i)
          /\ j \in timely /\ Succeeded(j) /\ pc[j] = "sent"
          /\ Len(body.items) >= 2

\* C3: a task whose g.get was still running when the scope was cancelled never
\* delivers: it never reaches "sent" and no received outcome is its own.
C3_StragglersDiscarded ==
    \A i \in late :
        /\ pc[i] # "sent"
        /\ \A k \in 1..Len(received) : received[k].src # i

\* A straggler with numbers ran its select while the collector had not yet
\* taken its own <-ctx.Done() case.
C3_Witness ==
    \E i \in late :
        /\ pc[i] = "dropped"
        /\ tresult[i].elems # <<>>
        /\ cpc = "loop"
        /\ LoopCond(expected)

\* C4: every dispatched fetchNumbers goroutine eventually ends, delivered or
\* dropped, whatever the collector does.
C4_NoTaskLeak ==
    \A i \in 1..MaxUrls :
        (i \in Tasks /\ pc[i] \in {"get", "select", "parked"})
            ~> (i \in Tasks /\ pc[i] \in {"sent", "dropped"})

\* A task ended by dropping its outcome after collectNumbers had returned.
C4_Witness ==
    /\ cpc = "returned"
    /\ \E i \in Tasks : pc[i] = "dropped" /\ i \in late
    /\ \E i \in Tasks : pc[i] = "sent"

\* C5: once the scope is cancelled, a running collectNumbers returns, however
\* few outcomes arrive.
C5_CollectorTerminates ==
    (ctxDone /\ cpc \in {"loop", "parked"}) ~> (cpc = "returned")

\* collectNumbers returned by cancellation with outcomes missing.
C5_Witness ==
    /\ cpc = "returned"
    /\ endedBy = "cancel"
    /\ Len(received) < expected0
    /\ \/ mode = "test"
       \/ \E i \in Tasks : pc[i] = "get"

\* C6: the slice collectNumbers returned is what it returns for every other
\* arrival order of the same outcomes (and every iteration order of the map).
C6_Commutative ==
    cpc = "returned" =>
        \A p \in ArrivalOrders(Len(received)) :
            \A o \in MapOrders(CollectSet([k \in 1..Len(received) |-> ReceivedNumbers[p[k]]])) :
                setToArray(o) = out

C6_Witness ==
    /\ cpc = "returned"
    /\ Len(received) = 2
    /\ received[1].numbers # received[2].numbers
    /\ received[1].numbers.elems # <<>>
    /\ received[2].numbers.elems # <<>>
    /\ Len(out.elems) >= 2

\* C7: the returned slice is strictly ascending and holds each distinct
\* received integer exactly once.
C7_AscendingDistinct ==
    cpc = "returned" =>
        /\ \A i \in 1..(Len(out.elems) - 1) : out.elems[i] < out.elems[i + 1]
        /\ \A v \in Ints(ReceivedNumbers) :
              Cardinality({k \in 1..Len(out.elems) : out.elems[k] = v}) = 1
        /\ \A k \in 1..Len(out.elems) : out.elems[k] \in Ints(ReceivedNumbers)

\* A duplicate inside one received sequence and the same integer in another.
C7_Witness ==
    /\ cpc = "returned"
    /\ \E k, l \in 1..Len(received) :
          /\ k # l
          /\ Len(received[k].numbers.elems) = 2
          /\ received[k].numbers.elems[1] = received[k].numbers.elems[2]
          /\ received[k].numbers.elems[1] \in Range(received[l].numbers.elems)
          /\ Len(out.elems) >= 2

\* C8: called with expected = 0, collectNumbers never parks, receives nothing,
\* never takes the cancellation case, leaves the channel as it was and returns
\* an empty result.
C8_EmptyInput ==
    (cpc # "idle" /\ expected0 = 0) =>
        /\ cpc \in {"loop", "returned"}
        /\ received = <<>>
        /\ endedBy # "cancel"
        /\ buf = inputs
        /\ cpc = "returned" => (result = {} /\ out.elems = <<>> /\ endedBy = "count")

C8_Witness ==
    /\ expected0 = 0
    /\ cpc = "returned"
    /\ ~ctxDone
    /\ Len(buf) >= 1

\* C9 as stated: an empty aggregate set gives a non-nil empty slice, and the
\* response carries an empty array.
C9_Original ==
    /\ (cpc = "returned" /\ result = {}) => (~out.nil /\ out.elems = <<>>)
    /\ (hpc = "done" /\ result = {}) => (body.kind = "array" /\ body.items = <<>>)

\* C9 amended: an empty aggregate set gives the nil slice (of length 0), which
\* the response carries as null; a non-empty set gives a non-nil array.
C9_Amended ==
    /\ cpc = "returned" => ((out.nil <=> result = {}) /\ Len(out.elems) = Cardinality(result))
    /\ hpc = "done" =>
          /\ body.kind = (IF result = {} THEN "null" ELSE "array")
          /\ body.items = out.elems

\* Every source failed or was late, and the response is null.
C9_Witness ==
    /\ hpc = "done"
    /\ Len(urls) >= 1
    /\ result = {}
    /\ body.kind = "null"

\* C10 as stated: if every source failed before the scope was cancelled,
\* collection ends by count and the result is empty.
C10_Original ==
    (mode = "handler" /\ cpc = "returned" /\ Len(urls) >= 1
        /\ \A i \in Tasks : i \in timely /\ Failed(i)) =>
        (endedBy = "count" /\ out.elems = <<>>)

\* C10 amended: a failed g.get makes fetchNumbers hold an empty outcome; the
\* collector decrements on every received outcome, empty or not; if every
\* source failed and every outcome was received, collection ended by count;
\* and when every received outcome is a failure the result is empty.
C10_Amended ==
    /\ \A i \in Tasks : (Returned(i) /\ Failed(i)) => tresult[i].elems = <<>>
    /\ (cpc \in {"loop", "parked", "returned"} /\ endedBy # "cancel") =>
          expected + Len(received) = expected0
    /\ (mode = "handler" /\ cpc = "returned") =>
          /\ (\A i \in Tasks : Failed(i) /\ pc[i] = "sent") => endedBy = "count"
          /\ (\A i \in Tasks : pc[i] = "sent" => Failed(i)) => out.elems = <<>>

\* Two sources, an error and a non-200 status, both received: ended by count.
C10_Witness ==
    /\ mode = "handler"
    /\ cpc = "returned"
    /\ ~ctxDone
    /\ endedBy = "count"
    /\ Len(urls) = 2
    /\ \A i \in Tasks : pc[i] = "sent" /\ Failed(i)
    /\ \E i, j \in Tasks : got[i].err /\ ~got[j].err
    /\ out.elems = <<>>

\* C11: partial results are kept.  No step of collectNumbers removes an integer
\* from the aggregate set, and when collection ended by cancellation the
\* returned sequence is the ascending set of the integers of the outcomes
\* received until the cancellation was observed.
C11_PartialKept ==
    /\ [][(cpc \in {"loop", "parked"}) => (result \subseteq result')]_vars
    /\ [](cpc \in {"loop", "parked", "returned"} => result = Ints(ReceivedNumbers))
    /\ []((cpc = "returned" /\ endedBy = "cancel") =>
            /\ IsAscending(out.elems)
            /\ Range(out.elems) = Ints(ReceivedNumbers))

\* Two outcomes with different integers were merged, then the scope was
\* cancelled with outcomes still expected; both are in the returned sequence.
C11_Witness ==
    /\ cpc = "returned"
    /\ endedBy = "cancel"
    /\ Len(received) = 2
    /\ Len(received) < expected0
    /\ received[1].numbers.elems # <<>>
    /\ Range(received[2].numbers.elems) \ Range(received[1].numbers.elems) # {}
    /\ Range(out.elems) = Ints(ReceivedNumbers)

\* C12: in every state of one request each dispatched task has delivered at
\* most one outcome, the collector has received at most as many outcomes as
\* identifiers were dispatched, the remaining count is within 0..len(urls),
\* and nothing is received once collectNumbers has stopped collecting.
C12_Bounded ==
    /\ [](mode = "handler" =>
            /\ \A i \in Tasks :
                  Cardinality({k \in 1..Len(received) : received[k].src = i}) <= 1
            /\ \A k \in 1..Len(received) : received[k].src \in 1..nspawn
            /\ Len(received) <= nspawn
            /\ nspawn <= Len(urls)
            /\ expected \in 0..Len(urls))
    /\ [][(endedBy # "none" \/ cpc = "returned" \/ ~LoopCond(expected)) =>
            (received' = received /\ result' = result)]_vars

\* Two tasks, one delivered and counted, then cancellation stopped the
\* collection while the other was still retrieving.
C12_Witness ==
    /\ mode = "handler"
    /\ Len(urls) = 2
    /\ cpc = "returned"
    /\ endedBy = "cancel"
    /\ Len(received) = 1
    /\ \E i \in Tasks : pc[i] = "sent"
    /\ \E i \in Tasks : pc[i] = "dropped" /\ i \notin timely

\* C13: by the time the handler returns, the deadline scope is cancelled, also
\* when collection ended because the remaining count reached zero.
C13_CancelledOnReturn == hpc = "done" => ctxDone

\* C15: cancellation of the request's context cancels the deadline scope in the
\* same step, releases every task waiting to send, wakes a waiting collector
\* into its cancellation case, removes nothing from what was merged, and the
\* collection then returns the integers merged so far, as the deadline does.
C15_DisconnectCancels ==
    /\ [](reqDone => ctxDone)
    /\ [][(~reqDone /\ reqDone') =>
            /\ ctxDone'
            /\ \A i \in Tasks : /\ pc'[i] # "parked"
                                /\ pc[i] = "parked" => pc'[i] = "dropped"
                                /\ pc[i] # "parked" => pc'[i] = pc[i]
            /\ sendq' = <<>>
            /\ cpc' # "parked"
            /\ cpc = "parked" => (endedBy' = "cancel" /\ ~LoopCond(expected'))
            /\ result' = result
            /\ received' = received]_vars
    /\ []((ctxErr = "Canceled" /\ cpc = "returned") =>
            /\ IsAscending(out.elems)
            /\ Range(out.elems) = Ints(ReceivedNumbers))
    /\ []((ctxErr = "Canceled" /\ cpc = "returned" /\ endedBy = "count") =>
            Len(received) = Len(urls))

\* The client went away before the deadline: one outcome had been merged, one
\* task was waiting to send and was released, and the response holds the
\* integers of the merged outcome.
C15_Witness ==
    /\ ctxErr = "Canceled"
    /\ hpc = "done"
    /\ endedBy = "cancel"
    /\ Len(urls) = 2
    /\ Len(received) = 1
    /\ received[1].numbers.elems # <<>>
    /\ \E i \in Tasks : pc[i] = "dropped" /\ i \in timely
    /\ body.kind = "array"

\* C18: one task and one attempt per identifier.  Every started task has
\* called g.get exactly once, with its own identifier, whatever that call
\* returned; once collectNumbers is called len(urls) tasks have been started
\* and the expected count is len(urls).
C18_OneAttempt ==
    mode = "handler" =>
        /\ nspawn <= Len(urls)
        /\ \A i \in Tasks : calls[i] = IF i <= nspawn THEN <<urls[i]>> ELSE <<>>
        /\ \A i \in Tasks : (pc[i] = "none") <=> (i > nspawn)
        /\ hpc \in {"collect", "done"} =>
              /\ nspawn = Len(urls)
              /\ expected0 = Len(urls)

\* The same identifier twice, both attempts failed: two tasks, one call each.
C18_Witness ==
    /\ mode = "handler"
    /\ hpc = "done"
    /\ Len(urls) = 2
    /\ urls[1] = urls[2]
    /\ \A i \in Tasks : Returned(i) /\ Failed(i) /\ calls[i] = <<urls[i]>>
    /\ expected0 = 2

\* C19: a task drops its outcome only when the scope has been cancelled.  A
\* task past g.get is waiting, delivered or dropped; delivered and dropped are
\* final; a task is dropped only in a state where the scope is cancelled; and
\* a task becomes delivered exactly when the collector receives its outcome.
C19_DropOnlyOnCancel ==
    /\ [](\A i \in Tasks : pc[i] = "dropped" => ctxDone)
    /\ [](\A i \in Tasks :
            (pc[i] = "sent") <=> (\E k \in 1..Len(received) : received[k].src = i))
    /\ [][\A i \in DOMAIN pc \cap DOMAIN pc' :
            /\ pc[i] \in {"sent", "dropped"} => pc'[i] = pc[i]
            /\ (pc[i] \in {"select", "parked"} /\ ~ctxDone') =>
                  pc'[i] \in {"select", "parked", "sent"}
            /\ (pc[i] # "sent" /\ pc'[i] = "sent") =>
                  received' = Append(received, [src |-> i, numbers |-> tresult[i]])]_vars

\* A task waited for the collector without the scope being cancelled and
\* delivered; another one was dropped by the cancellation.
C19_Witness ==
    /\ mode = "handler"
    /\ Len(urls) = 2
    /\ \E i, j \in Tasks : pc[i] = "sent" /\ pc[j] = "dropped" /\ j \in timely
    /\ ctxDone

\* C20: when collectNumbers has returned because the remaining count reached
\* zero, every task of the request has completed its send: none is still
\* retrieving, none is waiting on the channel, none was dropped.
C20_CountMeansAllSent ==
    (mode = "handler" /\ cpc = "returned" /\ endedBy = "count") =>
        \A i \in Tasks : pc[i] = "sent"

\* Two tasks, both delivered, collection ended by count.
C20_Witness ==
    /\ mode = "handler"
    /\ Len(urls) = 2
    /\ cpc = "returned"
    /\ endedBy = "count"
    /\ \A i \in Tasks : pc[i] = "sent"
    /\ hpc = "collect"

\* C16: every request goes Idle, Dispatched, Collecting, then Completed (the
\* remaining count reached zero) or DeadlineExceeded (cancellation observed
\* with outcomes still expected), then Finalized; Finalized is never left, its
\* response is a success, and every request reaches it whatever the sources do.
C16_StateMachine ==
    /\ [][mode' = "handler" => (Phase' = Phase \/ <<Phase, Phase'>> \in PhaseEdges)]_vars
    /\ [](mode = "handler" =>
            /\ Phase = "Completed" => (expected = 0 /\ Len(received) = Len(urls))
            /\ Phase = "DeadlineExceeded" => (ctxDone /\ Len(received) < Len(urls))
            /\ Phase = "Finalized" => (code = StatusOK /\ body.kind # "none")
            /\ Phase # "Finalized" => code = 0)
    /\ (mode = "handler") ~> (Phase = "Finalized" /\ code = StatusOK)

\* A request was finalized after its deadline was exceeded: one source had
\* failed, the other never answered.
C16_Witness ==
    /\ mode = "handler"
    /\ Len(urls) = 2
    /\ Phase = "Finalized"
    /\ endedBy = "cancel"
    /\ ctxErr = "DeadlineExceeded"
    /\ code = StatusOK
    /\ \E i, j \in Tasks : pc[i] = "sent" /\ Failed(i) /\ pc[j] = "get"

\* The integers of the outcomes that tasks of request r have delivered.
OwnDelivered(r) ==
    UNION {Range(req[r].tresult[i].elems) :
             i \in {j \in ReqTasks(r) : req[r].pc[j] = "sent"}}

\* C14: request isolation.  With requests served concurrently, the collector
\* of a request receives only from tasks dispatched for that request, its
\* aggregate set and the sequence it returns hold exactly the integers those
\* tasks delivered, and the body of its response holds nothing else.
C14_Isolation ==
    \A r \in Reqs :
        /\ \A k \in 1..Len(req[r].received) : req[r].received[k].src[1] = r
        /\ req[r].result = OwnDelivered(r)
        /\ req[r].cpc = "returned" => Range(req[r].out.elems) = OwnDelivered(r)
        /\ req[r].hpc = "done" => Range(req[r].body.items) = OwnDelivered(r)

\* Two requests in flight together: the first has received an outcome from
\* its task while the collector of the second waits on its own channel and
\* the task of the second holds integers the first request never asked for.
C14_Witness ==
    /\ req[1].cpc = "loop"
    /\ Len(req[1].received) = 1
    /\ req[1].result # {}
    /\ req[2].cpc = "parked"
    /\ req[2].pc = <<"select">>
    /\ Range(req[2].tresult[1].elems) \ req[1].result # {}

\* C17: in the timer/done-channel handler no fetch goroutine is blocked in its
\* send once collectNumbers has stopped receiving, whatever the number of
\* sources (a goroutine blocked then stays blocked: nothing reads c again).
\* Stated for the executions in which every g.get returned after the stop, so
\* that every goroutine counted in blk is one that finished after it.
C17_NoLateSenderBlocked == (OldStopped /\ old.early = 0) => old.blk = 0

\* The body is one json.Unmarshal decodes into Numbers without an error.
Decodable(b) == b.kind \in {"null", "absent", "fieldnull", "ints"}

\* The response reached get: the request was built and client.Do gave no error.
Answered(in) == in.urlOk /\ in.transport = "ok"

\* C21: get returns one of three shapes and always returns.  With status 200,
\* a readable and decodable body: (the decoded sequence, 200, nil), the
\* sequence being the body's array, or nil if the body has none.  With another
\* status: (nil, that status, nil).  In every other case (request not built,
\* transport failure, cancellation, unreadable or undecodable body):
\* (nil, -1, error).  A non-nil sequence comes only with 200 and a nil error.
C21_ThreeShapes ==
    /\ getter.pc = "called" => ENABLED HttpGetReturn
    /\ getter.pc = "returned" =>
          LET in == getter.in
              o == getter.out
          IN  /\ o \in GetOutcomes
              /\ (Answered(in) /\ in.status = StatusOK /\ in.readOk /\ Decodable(in.body)) =>
                    /\ o.status = StatusOK
                    /\ ~o.err
                    /\ o.numbers = IF in.body.kind = "ints" THEN MkSlice(in.body.elems) ELSE Nil
              /\ (Answered(in) /\ in.status # StatusOK) =>
                    o = [numbers |-> Nil, status |-> in.status, err |-> FALSE]
              /\ (~Answered(in) \/ (in.status = StatusOK /\ (~in.readOk \/ ~Decodable(in.body)))) =>
                    o = [numbers |-> Nil, status |-> StatusError, err |-> TRUE]
              /\ ~o.numbers.nil => (o.status = StatusOK /\ ~o.err)

\* A 200 response whose "numbers" array has an element that is no integer:
\* integers were decoded, and get returned (nil, -1, error).
C21_Witness ==
    /\ getter.pc = "returned"
    /\ Answered(getter.in)
    /\ getter.in.status = StatusOK
    /\ getter.in.readOk
    /\ getter.in.body.kind = "mixed"
    /\ getter.in.body.elems # <<>>
    /\ getter.out = [numbers |-> Nil, status |-> StatusError, err |-> TRUE]

====
